---- MODULE Spec2Model ----
(***************************************************************************)
(* Model of esp32_dashboard.py: one page load of the ESP32 sensor          *)
(* dashboard.  The script submits one Athena query, polls its status,      *)
(* fetches the result rows into a table, converts the columns and renders  *)
(* charts and the latest row's metrics.                                    *)
(***************************************************************************)
EXTENDS Integers, Sequences, FiniteSets, TLC

VARIABLES
    pc,         \* position of the script
    query_id,   \* run_athena_query: query_id (line 35)
    state,      \* run_athena_query: state (line 40), "none" before the first poll
    df,         \* the table: [columns : Seq(name), rows : Seq(Seq(cell))]
    latest,     \* latest = df.iloc[0] (line 141); <<>> before it is taken
    out,        \* the elements emitted to the page, in order
    exception,  \* the exception that ended the run, "none" otherwise
    svcIssued,  \* query service: the execution id it issued for the submitted query
    svcResult,  \* query service: the full result set of the execution
    svcPageLen, \* query service: number of rows in the first page of the result set
    lastCall,   \* the last service call or sleep the script made
    statusArg,  \* the QueryExecutionId passed to the last get_query_execution
    nSubmit,    \* number of start_query_execution calls made
    nResults    \* number of get_query_results calls made

vars == <<pc, query_id, state, df, latest, out, exception, svcIssued, svcResult,
          svcPageLen, lastCall, statusArg, nSubmit, nResults>>

(***************************************************************************)
(* Bounds of the model.                                                    *)
(***************************************************************************)
MaxRows == 2        \* data rows in a result set

(***************************************************************************)
(* Cells.  A cell is a record [k, s, m, e]:                                *)
(*   k = "None"  the missing value                                         *)
(*   k = "str"   the text s (a sequence of characters)                     *)
(*   k = "num"   the number m * 10^(-e)                                     *)
(*   k = "NaN"   the absent marker of a numeric column                     *)
(*   k = "dt"    the instant m * 10^(-e) milliseconds after the epoch       *)
(*   k = "NaT"   the absent marker of a datetime column                    *)
(***************************************************************************)
NoneCell == [k |-> "None", s |-> <<>>, m |-> 0, e |-> 0]
NaN == [k |-> "NaN", s |-> <<>>, m |-> 0, e |-> 0]
NaT == [k |-> "NaT", s |-> <<>>, m |-> 0, e |-> 0]
Str(t) == [k |-> "str", s |-> t, m |-> 0, e |-> 0]
Num(mant, exp) == [k |-> "num", s |-> <<>>, m |-> mant, e |-> exp]
Dt(mant, exp) == [k |-> "dt", s |-> <<>>, m |-> mant, e |-> exp]

Range(f) == {f[i] : i \in DOMAIN f}

(***************************************************************************)
(* Parsing of a text as a decimal number: an optional sign, digits with    *)
(* at most one decimal point, at least one digit.                          *)
(***************************************************************************)
DigitVal == [c \in {"0", "1", "2", "3", "4", "5", "6", "7", "8", "9"} |->
               CASE c = "0" -> 0 [] c = "1" -> 1 [] c = "2" -> 2 [] c = "3" -> 3
                 [] c = "4" -> 4 [] c = "5" -> 5 [] c = "6" -> 6 [] c = "7" -> 7
                 [] c = "8" -> 8 [] c = "9" -> 9]

IsDigit(c) == c \in DOMAIN DigitVal

HasSign(t) == Len(t) > 0 /\ t[1] \in {"-", "+"}

Unsigned(t) == IF HasSign(t) THEN Tail(t) ELSE t

DotPositions(t) == {i \in 1..Len(t) : t[i] = "."}

WellFormedNumber(t) ==
    LET b == Unsigned(t)
    IN  /\ \A i \in 1..Len(b) : IsDigit(b[i]) \/ b[i] = "."
        /\ Cardinality(DotPositions(b)) <= 1
        /\ \E i \in 1..Len(b) : IsDigit(b[i])

RECURSIVE DigitsToInt(_)
DigitsToInt(d) ==
    IF Len(d) = 0 THEN 0
    ELSE 10 * DigitsToInt(SubSeq(d, 1, Len(d) - 1)) + DigitVal[d[Len(d)]]

\* m * 10^(-e) with the trailing zeros of the fraction removed
RECURSIVE Reduce(_, _)
Reduce(mant, exp) ==
    IF exp > 0 /\ mant % 10 = 0 THEN Reduce(mant \div 10, exp - 1)
    ELSE <<mant, exp>>

ParseNumber(t) ==
    LET b == Unsigned(t)
        dots == DotPositions(b)
        mag == DigitsToInt(SelectSeq(b, IsDigit))
        exp == IF dots = {} THEN 0 ELSE Len(b) - (CHOOSE i \in dots : TRUE)
    IN  Reduce(IF HasSign(t) /\ t[1] = "-" THEN 0 - mag ELSE mag, exp)

\* pd.to_numeric(..., errors="coerce") on one value
ToNumeric_Zero(c) ==
    IF c.k = "num" THEN c
    ELSE IF c.k = "str" /\ WellFormedNumber(c.s)
         THEN Num(ParseNumber(c.s)[1], ParseNumber(c.s)[2])
         ELSE Num(0, 0)

ToNumeric(c) ==
    IF c.k = "num" THEN c
    ELSE IF c.k = "str" /\ WellFormedNumber(c.s)
         THEN Num(ParseNumber(c.s)[1], ParseNumber(c.s)[2])
         ELSE NaN

\* pd.to_datetime(..., unit="ms") on one value; the value is convertible
\* when it is missing or denotes a number
DatetimeConvertible(c) == c.k = "None" \/ (c.k = "str" /\ WellFormedNumber(c.s))

ToDatetime(c) ==
    IF c.k = "None" THEN NaT
    ELSE Dt(ParseNumber(c.s)[1], ParseNumber(c.s)[2])

(***************************************************************************)
(* Tables (pandas DataFrame).                                              *)
(***************************************************************************)
EmptyDataFrame == [columns |-> <<>>, rows |-> <<>>]

HasColumn(d, c) == c \in Range(d.columns)

ColumnIndex(d, c) == CHOOSE j \in 1..Len(d.columns) : d.columns[j] = c

ColumnValues(d, c) == [i \in 1..Len(d.rows) |-> d.rows[i][ColumnIndex(d, c)]]

\* df[col] = pd.to_numeric(df[col], errors="coerce") for every col of S
\* that is in the table
ColumnsToNumeric(d, S) ==
    [d EXCEPT !.rows =
        [i \in 1..Len(d.rows) |->
            [j \in 1..Len(d.columns) |->
                IF d.columns[j] \in S THEN ToNumeric(d.rows[i][j]) ELSE d.rows[i][j]]]]

\* df[c] = pd.to_datetime(df[c], unit="ms")
ColumnToDatetime(d, c) ==
    [d EXCEPT !.rows =
        [i \in 1..Len(d.rows) |->
            [j \in 1..Len(d.columns) |->
                IF d.columns[j] = c THEN ToDatetime(d.rows[i][j]) ELSE d.rows[i][j]]]]

\* df.empty
DfEmpty_NoColumns(d) == Len(d.columns) = 0

DfEmpty(d) == Len(d.columns) = 0 \/ Len(d.rows) = 0

(***************************************************************************)
(* The query service (Athena), as far as the script sees it.               *)
(***************************************************************************)
Statuses == {"QUEUED", "RUNNING", "SUCCEEDED", "FAILED", "CANCELLED"}

ExecIds == {"q1", "q2"}

\* A datum of a result row: with a VarCharValue, or without one
Datum(t) == [has |-> TRUE, VarCharValue |-> t]
NoDatum == [has |-> FALSE, VarCharValue |-> <<>>]

CellTexts == {<<"2", ".", "5">>, <<"b", "a", "d">>}

Data == {Datum(t) : t \in CellTexts} \cup {NoDatum}

\* The column labels the query can return: SELECT * of sensor_history and
\* the projected orientation column, under the schema versions' names
Headers ==
    { <<"timestamp_ms">>,
      <<"distance_cm">>,
      <<"timestamp_ms", "distance_cm">>,
      <<"timestamp_ms", "roll_deg">>,
      <<"timestamp_ms", "mpu6050.roll_deg">> }

HeaderRow(h) == [j \in 1..Len(h) |-> Datum(<<h[j]>>)]

DataRows(h) == UNION {[1..n -> [1..Len(h) -> Data]] : n \in 0..MaxRows}

\* A result set: the column metadata and the rows, the first of which
\* is the header row
ResultSets ==
    UNION {{[columns |-> h, rows |-> <<HeaderRow(h)>> \o r] : r \in DataRows(h)} :
             h \in Headers}

NoResultSet == [columns |-> <<>>, rows |-> <<>>]

\* get_query_results without NextToken answers with the first page
FirstPage(rs, n) == [columns |-> rs.columns, rows |-> SubSeq(rs.rows, 1, n)]

(***************************************************************************)
(* run_athena_query                                                        *)
(***************************************************************************)
\* line 41: state in ["SUCCEEDED", "FAILED", "CANCELLED"]
IsTerminal_NotRunning(s) == s # "RUNNING"

IsTerminal_NoCancelled(s) == s \in {"SUCCEEDED", "FAILED"}

IsTerminal_OnlySucceeded(s) == s = "SUCCEEDED"

IsTerminal(s) == s \in {"SUCCEEDED", "FAILED", "CANCELLED"}

\* line 45: the negation of state != "SUCCEEDED"
QuerySucceeded_NotFailed(s) == s # "FAILED"

QuerySucceeded(s) == s = "SUCCEEDED"

\* line 52: c.get("VarCharValue", None)
Flatten(c) == IF c.has THEN Str(c.VarCharValue) ELSE NoneCell

\* lines 51-53: the table built from one get_query_results response
FetchTable(results) ==
    [columns |-> results.columns,
     rows |-> [i \in 1..(Len(results.rows) - 1) |->
                  [j \in 1..Len(results.rows[i + 1]) |-> Flatten(results.rows[i + 1][j])]]]

Element(kind, name, cols, val) == [kind |-> kind, name |-> name, cols |-> cols, val |-> val]

NoLatest == [columns |-> <<>>, values |-> <<>>]

Init ==
    /\ pc = "start"
    /\ query_id = "none"
    /\ state = "none"
    /\ df = EmptyDataFrame
    /\ latest = NoLatest
    /\ out = <<>>
    /\ exception = "none"
    /\ svcIssued = "none"
    /\ svcResult = NoResultSet
    /\ svcPageLen = 0
    /\ lastCall = "none"
    /\ statusArg = "none"
    /\ nSubmit = 0
    /\ nResults = 0

\* lines 30-35: start_query_execution
Submit ==
    /\ pc = "start"
    /\ \E id \in ExecIds :
          /\ svcIssued' = id
          /\ query_id' = id
    /\ nSubmit' = nSubmit + 1
    /\ lastCall' = "submit"
    /\ pc' = "poll"
    /\ UNCHANGED <<state, df, latest, out, exception, svcResult, svcPageLen,
                   statusArg, nResults>>

\* lines 39-42: get_query_execution and the test of the loop
GetStatus ==
    /\ pc = "poll"
    /\ \E s \in Statuses :
          /\ state' = s
          /\ pc' = IF IsTerminal(s) THEN "check" ELSE "sleep"
    /\ statusArg' = query_id
    /\ lastCall' = "get_status"
    /\ UNCHANGED <<query_id, df, latest, out, exception, svcIssued, svcResult,
                   svcPageLen, nSubmit, nResults>>

\* line 43: time.sleep(1)
Sleep ==
    /\ pc = "sleep"
    /\ lastCall' = "sleep"
    /\ pc' = "poll"
    /\ UNCHANGED <<query_id, state, df, latest, out, exception, svcIssued,
                   svcResult, svcPageLen, statusArg, nSubmit, nResults>>

\* lines 45-47: st.error and the empty table on a non-success state
CheckState ==
    /\ pc = "check"
    /\ IF QuerySucceeded(state)
       THEN /\ pc' = "fetch"
            /\ UNCHANGED <<df, out>>
       ELSE /\ out' = Append(out, Element("error", state, <<>>, NoneCell))
            /\ df' = EmptyDataFrame
            /\ pc' = "empty_check"
    /\ UNCHANGED <<query_id, state, latest, exception, svcIssued, svcResult,
                   svcPageLen, lastCall, statusArg, nSubmit, nResults>>

\* lines 50-54: get_query_results and the table built from its response
GetResults ==
    /\ pc = "fetch"
    /\ \E rs \in ResultSets : \E n \in 1..Len(rs.rows) :
          /\ svcResult' = rs
          /\ svcPageLen' = n
          /\ df' = FetchTable(FirstPage(rs, n))
    /\ nResults' = nResults + 1
    /\ lastCall' = "get_results"
    /\ pc' = "empty_check"
    /\ UNCHANGED <<query_id, state, latest, out, exception, svcIssued, statusArg,
                   nSubmit>>

(***************************************************************************)
(* The script after the query (lines 63-157).                              *)
(***************************************************************************)
\* lines 72-74
NumericCols ==
    <<"ky028_temp_C", "bme_temp_C", "humidity_percent", "pressure_hPa",
      "distance_cm", "roll_deg", "pitch_deg", "yaw_deg",
      "processing_time_ms", "payload_size_bytes">>

\* lines 80-137: the subheader of each chart and its y columns
ChartSpecs ==
    << [name |-> "Temperature over time", y |-> <<"ky028_temp_C", "bme_temp_C">>],
       [name |-> "Humidity over time", y |-> <<"humidity_percent">>],
       [name |-> "Pressure over time", y |-> <<"pressure_hPa">>],
       [name |-> "Distance over time", y |-> <<"distance_cm">>],
       [name |-> "IMU Data (Roll / Pitch / Yaw)",
        y |-> <<"roll_deg", "pitch_deg", "yaw_deg">>] >>

\* lines 144-153
SensorMetrics ==
    << <<"BME Temp", "bme_temp_C">>, <<"KY028 Temp", "ky028_temp_C">>,
       <<"Humidity", "humidity_percent">>, <<"Pressure", "pressure_hPa">>,
       <<"Distance", "distance_cm">>, <<"Roll", "roll_deg">>,
       <<"Pitch", "pitch_deg">>, <<"Yaw", "yaw_deg">> >>

\* [c for c in cols if c in df.columns]
Available(d, cols) == SelectSeq(cols, LAMBDA c : HasColumn(d, c))

\* lines 80-137 from chart i on: every subheader, and a line chart over
\* timestamp_ms when one of the chart's columns is in the table
RECURSIVE RenderCharts(_, _, _)
RenderCharts(d, i, acc) ==
    IF i > Len(ChartSpecs) THEN [out |-> acc, raised |-> "none"]
    ELSE LET sub == Append(acc, Element("subheader", ChartSpecs[i].name, <<>>, NoneCell))
             y == Available(d, ChartSpecs[i].y)
         IN  IF y = <<>> THEN RenderCharts(d, i + 1, sub)
             ELSE IF ~HasColumn(d, "timestamp_ms")
                  THEN [out |-> sub, raised |-> "ValueError"]
                  ELSE RenderCharts(d, i + 1,
                           Append(sub, Element("chart", ChartSpecs[i].name, y, NoneCell)))

\* lines 154-157 from metric i on
RECURSIVE RenderMetrics(_, _, _)
RenderMetrics(row, i, acc) ==
    IF i > Len(SensorMetrics) THEN acc
    ELSE IF SensorMetrics[i][2] \in Range(row.columns)
         THEN RenderMetrics(row, i + 1,
                  Append(acc, Element("metric", SensorMetrics[i][1], <<SensorMetrics[i][2]>>,
                      row.values[CHOOSE j \in 1..Len(row.columns) :
                                     row.columns[j] = SensorMetrics[i][2]])))
         ELSE RenderMetrics(row, i + 1, acc)

\* lines 63-67: df.empty and the warning
EmptyCheck ==
    /\ pc = "empty_check"
    /\ IF DfEmpty(df)
       THEN /\ out' = Append(out, Element("warning", "No data retrieved from Athena.",
                                          <<>>, NoneCell))
            /\ pc' = "done"
       ELSE /\ pc' = "to_datetime"
            /\ UNCHANGED out
    /\ UNCHANGED <<query_id, state, df, latest, exception, svcIssued, svcResult,
                   svcPageLen, lastCall, statusArg, nSubmit, nResults>>

\* line 69: df['timestamp_ms'] = pd.to_datetime(df['timestamp_ms'], unit='ms')
ConvertTimestamp ==
    /\ pc = "to_datetime"
    /\ IF ~HasColumn(df, "timestamp_ms")
       THEN /\ exception' = "KeyError"
            /\ pc' = "crashed"
            /\ UNCHANGED df
       ELSE IF \E v \in Range(ColumnValues(df, "timestamp_ms")) : ~DatetimeConvertible(v)
       THEN /\ exception' = "ValueError"
            /\ pc' = "crashed"
            /\ UNCHANGED df
       ELSE /\ df' = ColumnToDatetime(df, "timestamp_ms")
            /\ pc' = "to_numeric"
            /\ UNCHANGED exception
    /\ UNCHANGED <<query_id, state, latest, out, svcIssued, svcResult, svcPageLen,
                   lastCall, statusArg, nSubmit, nResults>>

\* lines 72-77: pd.to_numeric(errors="coerce") on the numeric columns present
ConvertNumeric ==
    /\ pc = "to_numeric"
    /\ df' = ColumnsToNumeric(df, Range(NumericCols))
    /\ pc' = "charts"
    /\ UNCHANGED <<query_id, state, latest, out, exception, svcIssued, svcResult,
                   svcPageLen, lastCall, statusArg, nSubmit, nResults>>

\* lines 80-137: the charts
Charts ==
    /\ pc = "charts"
    /\ LET r == RenderCharts(df, 1, out)
       IN  /\ out' = r.out
           /\ IF r.raised = "none"
              THEN pc' = "metrics" /\ UNCHANGED exception
              ELSE pc' = "crashed" /\ exception' = r.raised
    /\ UNCHANGED <<query_id, state, df, latest, svcIssued, svcResult, svcPageLen,
                   lastCall, statusArg, nSubmit, nResults>>

\* lines 140-157: the latest row and its metrics
LatestMetrics ==
    /\ pc = "metrics"
    /\ LET sub == Append(out, Element("subheader", "Latest Sensor Values", <<>>, NoneCell))
       IN  IF Len(df.rows) = 0
           THEN /\ out' = sub
                /\ exception' = "IndexError"
                /\ pc' = "crashed"
                /\ UNCHANGED latest
           ELSE /\ latest' = [columns |-> df.columns, values |-> df.rows[1]]
                /\ out' = RenderMetrics(latest', 1, sub)
                /\ pc' = "done"
                /\ UNCHANGED exception
    /\ UNCHANGED <<query_id, state, df, svcIssued, svcResult, svcPageLen, lastCall,
                   statusArg, nSubmit, nResults>>

Next ==
    \/ Submit
    \/ GetStatus
    \/ Sleep
    \/ CheckState
    \/ GetResults
    \/ EmptyCheck
    \/ ConvertTimestamp
    \/ ConvertNumeric
    \/ Charts
    \/ LatestMetrics

Spec == Init /\ [][Next]_vars

\* The script runs to its end: every step that can be taken is taken
FairSpec == Init /\ [][Next]_vars /\ WF_vars(Next)

(***************************************************************************)
(* Properties.                                                             *)
(***************************************************************************)
\* The terminal states of a query execution
TerminalStates == {"SUCCEEDED", "FAILED", "CANCELLED"}

InPollLoop == pc \in {"start", "poll", "sleep"}

\* run_athena_query has returned its table to the script
Returned == pc \in {"empty_check", "to_datetime", "to_numeric", "charts", "metrics",
                    "done", "crashed"}

\* the kinds of elements the charts and metrics steps emit
RenderKinds == {"subheader", "chart", "metric"}

\* the number a text denotes, for the texts a result set can hold
ExpectedNumber(c) ==
    IF c = Str(<<"2", ".", "5">>) THEN Num(25, 1) ELSE NaN

\* the text value of a datum of the result set
ExpectedText(c) == IF c.has THEN Str(c.VarCharValue) ELSE NoneCell

ExpectedNumericColumns ==
    {"ky028_temp_C", "bme_temp_C", "humidity_percent", "pressure_hPa", "distance_cm",
     "roll_deg", "pitch_deg", "yaw_deg", "processing_time_ms", "payload_size_bytes"}

\* C1: the poll loop is left only after a status in {SUCCEEDED, FAILED,
\* CANCELLED} has been observed, never while the last observed status is
\* RUNNING or QUEUED, and get_query_results is called only when the last
\* observed status is SUCCEEDED.
C1_PollLoopExit ==
    /\ ~InPollLoop => state \in TerminalStates
    /\ (pc = "fetch" \/ nResults > 0) => state = "SUCCEEDED"

C1_Witness == nResults = 1 /\ lastCall = "get_results" /\ state = "SUCCEEDED"

\* C2: when the terminal status observed is FAILED or CANCELLED, an error is
\* emitted, the function returns an empty table without fetching results, and
\* the run ends without an exception and without a chart or metric step.
C2_FailureYieldsEmptyTable ==
    state \in {"FAILED", "CANCELLED"} =>
        /\ pc \in {"check", "empty_check", "done"}
        /\ nResults = 0
        /\ exception = "none"
        /\ latest = NoLatest
        /\ \A i \in 1..Len(out) : out[i].kind \notin RenderKinds
        /\ Returned => /\ df = EmptyDataFrame
                       /\ \E i \in 1..Len(out) : out[i].kind = "error" /\ out[i].name = state

C2_Witness == pc = "done" /\ state = "CANCELLED" /\ Len(out) = 2

\* C3: the poll loop has no attempt limit: if the service eventually reports a
\* terminal status, run_athena_query eventually returns; if it reports RUNNING
\* or QUEUED forever, the run polls forever and never reaches the result
\* fetch or the rendering steps.
C3_PollUntilTerminal ==
    /\ <>(state \in TerminalStates) => <>Returned
    /\ [](state \notin TerminalStates) =>
           ([](InPollLoop /\ nResults = 0) /\ []<>(lastCall = "get_status"))

C3_Witness == pc = "poll" /\ lastCall = "sleep" /\ state = "QUEUED"

\* C4: numeric coercion is total: every cell of a column of the numeric-column
\* list becomes the number its text denotes when the text is a well-formed
\* number and the absent marker otherwise, no error is raised, and the other
\* columns and the number and order of the rows are unchanged.
C4_NumericCoercionTotal ==
    [][pc = "to_numeric" =>
          /\ pc' = "charts"
          /\ exception' = "none"
          /\ df'.columns = df.columns
          /\ Len(df'.rows) = Len(df.rows)
          /\ \A i \in 1..Len(df.rows) : \A j \in 1..Len(df.columns) :
                df'.rows[i][j] = IF df.columns[j] \in ExpectedNumericColumns
                                 THEN ExpectedNumber(df.rows[i][j])
                                 ELSE df.rows[i][j]]_vars

C4_Witness ==
    /\ pc = "charts"
    /\ \E i \in 1..Len(df.rows) : \E j \in 1..Len(df.columns) : df.rows[i][j] = NaN
    /\ \E i \in 1..Len(df.rows) : \E j \in 1..Len(df.columns) : df.rows[i][j] = Num(25, 1)

\* C5: for every non-empty result table, the run raises the proximity alert
\* if and only if the latest row has a present numeric distance_cm value
\* strictly less than 3.
C5_ProximityAlert ==
    (pc = "done" /\ latest # NoLatest) =>
        ((\E i \in 1..Len(out) : out[i].kind = "alert")
         <=> \E j \in 1..Len(latest.columns) :
                /\ latest.columns[j] = "distance_cm"
                /\ latest.values[j].k = "num"
                /\ latest.values[j].m < 3 * 10 ^ latest.values[j].e)

\* C6: whenever the fetched table has no data rows, the run emits only the
\* "no data" placeholder, executes no timestamp conversion, chart or metric
\* step, never reads row 0, and ends without error.
C6_EmptyTableNoData ==
    (Returned /\ pc # "empty_check" /\ Len(df.rows) = 0) =>
        /\ pc = "done"
        /\ exception = "none"
        /\ latest = NoLatest
        /\ \A i \in 1..Len(out) : out[i].kind \notin RenderKinds
        /\ \E i \in 1..Len(out) : out[i].kind = "warning"

C6_Witness ==
    /\ pc = "done"
    /\ state = "SUCCEEDED"
    /\ Len(svcResult.rows) = 1
    /\ Len(df.rows) = 0

\* C7: for a non-empty result table with any subset of the expected columns,
\* every step that uses a missing column is skipped by a presence check: no
\* step accesses a column that is not in the table, and the run ends without
\* error.
C7_MissingColumnsSkipped ==
    (state = "SUCCEEDED" /\ Len(df.rows) > 0) => exception # "KeyError"

\* C8: each orientation-field convention of the result set (the plain column
\* roll_deg, the dotted column mpu6050.roll_deg) yields the canonical column
\* roll_deg of the normalized table, with the numbers the raw values denote.
C8_OrientationConventions ==
    (pc \in {"charts", "metrics", "done"} /\ Len(df.rows) > 0) =>
        \A n \in {"roll_deg", "mpu6050.roll_deg"} :
            n \in Range(svcResult.columns) =>
                /\ HasColumn(df, "roll_deg")
                /\ \A i \in 1..Len(df.rows) :
                      df.rows[i][ColumnIndex(df, "roll_deg")] =
                          ExpectedNumber(ExpectedText(
                              svcResult.rows[i + 1][ColumnIndex(svcResult, n)]))

\* C9: on SUCCEEDED the returned table holds exactly the data rows of the
\* result set in the service's order: the header row is dropped, every later
\* row of the result set, across all of its pages, appears once and in order,
\* a datum without a value becomes the absent text value, and the latest row
\* is the first data row.
C9_AllDataRows ==
    /\ (pc = "empty_check" /\ nResults = 1) =>
          /\ df.columns = svcResult.columns
          /\ Len(df.rows) = Len(svcResult.rows) - 1
          /\ \A i \in 1..Len(df.rows) : \A j \in 1..Len(df.columns) :
                df.rows[i][j] = ExpectedText(svcResult.rows[i + 1][j])
    /\ latest # NoLatest => latest.values = df.rows[1]

\* C10: the calls to the query service occur in the order submit, then
\* get_status calls with the execution id of that submit, then at most one
\* get_results: one query is submitted per run and never resubmitted, no
\* get_status follows an observed terminal status, and the sleep happens only
\* between a non-terminal status and the next get_status.
C10_CallOrder ==
    [][/\ nSubmit' <= 1
       /\ nResults' <= 1
       /\ pc' # "start" => nSubmit' = 1
       /\ nSubmit' # nSubmit => lastCall = "none"
       /\ (lastCall' = "get_status" /\ lastCall # "get_status") =>
             /\ lastCall \in {"submit", "sleep"}
             /\ state \notin TerminalStates
             /\ statusArg' = svcIssued
       /\ lastCall' = "get_status" => statusArg' = svcIssued /\ svcIssued # "none"
       /\ (lastCall' = "sleep" /\ lastCall # "sleep") =>
             /\ lastCall = "get_status"
             /\ state \notin TerminalStates
       /\ (lastCall = "sleep" /\ lastCall' # "sleep") => lastCall' = "get_status"
       /\ nResults' # nResults => (lastCall = "get_status" /\ state = "SUCCEEDED")
       /\ lastCall = "get_results" => lastCall' = "get_results"]_vars

C10_Witness == lastCall = "get_results" /\ nSubmit = 1 /\ nResults = 1 /\ statusArg = query_id

====
